---- MODULE Spec2Model ----
(***************************************************************************)
(* Model of cloud_app.py (Macro Radar): one run of the Streamlit script    *)
(* after another.  A run fetches the FRED series and the BTC closes        *)
(* (get_market_data, cached), computes the derived columns and the signal  *)
(* (calculate_signal), reads the latest row, probes the live price and     *)
(* renders.                                                                *)
(*                                                                         *)
(* Numbers.  The program computes in binary floating point; the model      *)
(* computes exactly.  Inputs are integers, a rolling mean is the fraction  *)
(* num/den, and a rolling correlation is num/sqrt(den2), the common factor *)
(* n(n-1) of covariance and variances cancelled.  A NaN is a cell with     *)
(* def = FALSE.  Rounding error of the float computation is not modelled.  *)
(*                                                                         *)
(* Dates are day numbers 1..MaxDay of the requested range; row i of a      *)
(* table is TLA+ index i+1 (the spec counts rows from 0).                  *)
(***************************************************************************)
EXTENDS Integers, Sequences, FiniteSets, TLC

VARIABLES
    pc,          \* position of the script run
    cache,       \* st.cache_data entry of get_market_data
    raw_df,      \* the object get_market_data returned (name raw_df, line 146)
    df,          \* the object calculate_signal returned (name df, line 148)
    latest,      \* df.iloc[-1] (line 149)
    errors,      \* st.error messages shown in this run
    rendered,    \* what this run has put on the page
    acquired     \* history: what the two providers answered when the body
                 \* of get_market_data last ran

vars == <<pc, cache, raw_df, df, latest, errors, rendered, acquired>>

------------------------------------------------------------------------------
(* Bounds of the model *)

\* days in the requested date range
MaxDay == 31
\* latest first day on which a source has an observation
MaxLead == 2

(* Program constants *)

\* rolling(window=20), lines 85-86
SmaWindow == 20
\* rolling(window=30), line 87
CorrWindow == 30
\* tail(30), line 218
TailRows == 30
\* division by 1000, line 55
Scale == 1000

------------------------------------------------------------------------------
(* Values *)

Max(a, b) == IF a >= b THEN a ELSE b
Min(a, b) == IF a <= b THEN a ELSE b

\* a float NaN in a raw FRED column (no observation on that day)
NaN == -1

\* a NaN in a derived column
NaNCell == [def |-> FALSE, num |-> 0, den |-> 1]
NaNCorr == [def |-> FALSE, num |-> 0, den2 |-> 1]

\* Python None, and a DataFrame with the given rows
None == [none |-> TRUE, rows |-> <<>>]
Frame(rows) == [none |-> FALSE, rows |-> rows]

RECURSIVE SumTo(_, _, _)
\* f[lo] + ... + f[hi]
SumTo(f, lo, hi) == IF lo > hi THEN 0 ELSE f[hi] + SumTo(f, lo, hi - 1)

\* the step series the inputs are drawn from: value `from` before day `at`,
\* value `to` from day `at` on
Shapes ==
    { [from |-> 1, to |-> 1, at |-> 1],
      [from |-> 1, to |-> 2, at |-> 13],
      [from |-> 2, to |-> 1, at |-> 13],
      [from |-> 1, to |-> 2, at |-> 30],
      [from |-> 2, to |-> 1, at |-> 30] }

ShapeAt(s, d) == IF d < s.at THEN s.from ELSE s.to

------------------------------------------------------------------------------
(* Data sources: what the two providers can answer *)

\* web.DataReader(['WALCL','WTREGEN','RRPONTSYD'], 'fred', ...): one row per
\* day 1..fEnd; WALCL is a weekly series first observed on day wFirst and is
\* NaN on the other days; values are in millions
FredFrame(fEnd, wFirst, rShape) ==
    [d \in 1..fEnd |->
        [date      |-> d,
         WALCL     |-> IF d >= wFirst /\ (d - wFirst) % 7 = 0
                       THEN 10 * Scale ELSE NaN,
         WTREGEN   |-> 1 * Scale,
         RRPONTSYD |-> ShapeAt(rShape, d) * Scale]]

\* yf.download('BTC-USD', ...): one row per day from the first quoted day
BtcFrame(bFirst, pShape) ==
    [k \in 1..(MaxDay - bFirst + 1) |->
        [date  |-> bFirst + k - 1,
         Open  |-> ShapeAt(pShape, bFirst + k - 1),
         Close |-> ShapeAt(pShape, bFirst + k - 1)]]

Failure == [ok |-> FALSE, rows |-> <<>>]

FredOutcomes ==
    {Failure} \cup
    { [ok |-> TRUE, rows |-> FredFrame(fEnd, wFirst, rShape)] :
        fEnd \in 0..MaxDay, wFirst \in 1..MaxLead, rShape \in Shapes }

BtcOutcomes ==
    {Failure} \cup
    { [ok |-> TRUE, rows |-> BtcFrame(bFirst, pShape)] :
        bFirst \in 1..MaxLead, pShape \in Shapes }

------------------------------------------------------------------------------
(* get_market_data, lines 47-79 *)

RECURSIVE FfillAt(_, _, _)
\* the last observation of column c at or before row i, NaN if there is none
FfillAt(rows, c, i) ==
    IF i = 0 THEN NaN
    ELSE IF rows[i][c] # NaN THEN rows[i][c]
    ELSE FfillAt(rows, c, i - 1)

\* DataFrame.ffill()
Ffill(rows) ==
    [i \in 1..Len(rows) |->
        [date      |-> rows[i].date,
         WALCL     |-> FfillAt(rows, "WALCL", i),
         WTREGEN   |-> FfillAt(rows, "WTREGEN", i),
         RRPONTSYD |-> FfillAt(rows, "RRPONTSYD", i)]]

HasNa(r) == r.WALCL = NaN \/ r.WTREGEN = NaN \/ r.RRPONTSYD = NaN

\* DataFrame.dropna()
Dropna(rows) == SelectSeq(rows, LAMBDA r : ~HasNa(r))

\* fred_data['Net_Liquidity'] = (WALCL - WTREGEN - RRPONTSYD) / 1000
NetLiquidity(rows) ==
    [i \in 1..Len(rows) |->
        [date          |-> rows[i].date,
         Net_Liquidity |-> (rows[i].WALCL - rows[i].WTREGEN - rows[i].RRPONTSYD)
                           \div Scale]]

\* btc_data[['Close']].copy()
CloseOnly(rows) ==
    [i \in 1..Len(rows) |-> [date |-> rows[i].date, Close |-> rows[i].Close]]

\* pd.merge(left, right, left_index=True, right_index=True, how='inner')
\* followed by the rename of Close to BTC_Price
MergeInner(left, right) ==
    LET match(l) == {j \in 1..Len(right) : right[j].date = l.date}
        keep == SelectSeq(left, LAMBDA l : match(l) # {})
    IN  [i \in 1..Len(keep) |->
            [date          |-> keep[i].date,
             Net_Liquidity |-> keep[i].Net_Liquidity,
             BTC_Price     |-> right[CHOOSE j \in match(keep[i]) : TRUE].Close]]

\* faulty variant: the price source's failure is reported but an empty table is
\* returned in place of None
get_market_data_empty_on_failure(fred, btc) ==
    IF ~fred.ok THEN [value |-> None, errors |-> {"fred"}]
    ELSE IF ~btc.ok THEN [value |-> Frame(<<>>), errors |-> {"btc"}]
    ELSE [value  |-> Frame(MergeInner(NetLiquidity(Dropna(Ffill(fred.rows))),
                                      CloseOnly(btc.rows))),
          errors |-> {}]

\* the body of get_market_data: its return value and the st.error calls
get_market_data(fred, btc) ==
    IF ~fred.ok THEN [value |-> None, errors |-> {"fred"}]
    ELSE IF ~btc.ok THEN [value |-> None, errors |-> {"btc"}]
    ELSE [value  |-> Frame(MergeInner(NetLiquidity(Dropna(Ffill(fred.rows))),
                                      CloseOnly(btc.rows))),
          errors |-> {}]

------------------------------------------------------------------------------
(* calculate_signal, lines 84-100 *)

Column(rows, c) == [i \in 1..Len(rows) |-> rows[i][c]]

\* faulty variant: rolling(window, center=True), the window centred on row i
RollingMeanCentered(col, window, i) ==
    LET lo == i - window \div 2
        hi == lo + window - 1
    IN  IF lo >= 1 /\ hi <= Len(col)
        THEN [def |-> TRUE, num |-> SumTo(col, lo, hi), den |-> window]
        ELSE NaNCell

\* faulty variant: rolling(window, min_periods=1), a mean over the rows there are
RollingMeanMinPeriods1(col, window, i) ==
    LET lo   == Max(1, i - window + 1)
        nobs == i - lo + 1
    IN  [def |-> TRUE, num |-> SumTo(col, lo, i), den |-> nobs]

\* Series.rolling(window).mean() at row i: the window is the `window` rows
\* ending at i, cut at the start of the table; min_periods defaults to the
\* window size, so a shorter window gives NaN
RollingMean(col, window, i) ==
    LET lo   == Max(1, i - window + 1)
        nobs == i - lo + 1
    IN  IF nobs >= window
        THEN [def |-> TRUE, num |-> SumTo(col, lo, i), den |-> nobs]
        ELSE NaNCell

\* faulty variant: the correlation taken over the 20-row window of the averages
RollingCorrWindow20(x, y, window, i) ==
    LET lo   == Max(1, i - SmaWindow + 1)
        nobs == i - lo + 1
        xy   == [k \in lo..i |-> x[k] * y[k]]
        xx   == [k \in lo..i |-> x[k] * x[k]]
        yy   == [k \in lo..i |-> y[k] * y[k]]
        sx   == SumTo(x, lo, i)
        sy   == SumTo(y, lo, i)
        cov  == nobs * SumTo(xy, lo, i) - sx * sy
        varx == nobs * SumTo(xx, lo, i) - sx * sx
        vary == nobs * SumTo(yy, lo, i) - sy * sy
    IN  IF nobs < SmaWindow THEN NaNCorr
        ELSE IF varx * vary = 0 /\ cov = 0 THEN NaNCorr
        ELSE [def |-> TRUE, num |-> cov, den2 |-> varx * vary]

\* faulty variant: a zero denominator answered with a correlation of 0
RollingCorrZeroFilled(x, y, window, i) ==
    LET lo   == Max(1, i - window + 1)
        nobs == i - lo + 1
        xy   == [k \in lo..i |-> x[k] * y[k]]
        xx   == [k \in lo..i |-> x[k] * x[k]]
        yy   == [k \in lo..i |-> y[k] * y[k]]
        sx   == SumTo(x, lo, i)
        sy   == SumTo(y, lo, i)
        cov  == nobs * SumTo(xy, lo, i) - sx * sy
        varx == nobs * SumTo(xx, lo, i) - sx * sx
        vary == nobs * SumTo(yy, lo, i) - sy * sy
    IN  IF nobs < window THEN NaNCorr
        ELSE IF varx * vary = 0 THEN [def |-> TRUE, num |-> 0, den2 |-> 1]
        ELSE [def |-> TRUE, num |-> cov, den2 |-> varx * vary]

\* x.rolling(window).corr(y) at row i: sample covariance over the product of
\* the sample standard deviations, num / sqrt(den2) after cancelling n(n-1).
\* A zero denominator gives 0/0 = NaN, or an infinity (def with den2 = 0)
\* if the numerator is not zero.
RollingCorr(x, y, window, i) ==
    LET lo   == Max(1, i - window + 1)
        nobs == i - lo + 1
        xy   == [k \in lo..i |-> x[k] * y[k]]
        xx   == [k \in lo..i |-> x[k] * x[k]]
        yy   == [k \in lo..i |-> y[k] * y[k]]
        sx   == SumTo(x, lo, i)
        sy   == SumTo(y, lo, i)
        cov  == nobs * SumTo(xy, lo, i) - sx * sy
        varx == nobs * SumTo(xx, lo, i) - sx * sx
        vary == nobs * SumTo(yy, lo, i) - sy * sy
    IN  IF nobs < window THEN NaNCorr
        ELSE IF varx * vary = 0 /\ cov = 0 THEN NaNCorr
        ELSE [def |-> TRUE, num |-> cov, den2 |-> varx * vary]

\* x > m for a float x and a rolling mean m: False when m is NaN
GtMean(x, m) == m.def /\ x * m.den > m.num

\* faulty variant: not (c <= 0.5), which is True when c is NaN
GtHalfNotLe(c) == ~c.def \/ (c.num > 0 /\ 4 * c.num * c.num > c.den2)

\* c > 0.5 for a rolling correlation c: False when c is NaN
GtHalf(c) == c.def /\ c.num > 0 /\ 4 * c.num * c.num > c.den2

\* faulty variant: the first branch without the correlation test
get_status_no_corr(row) ==
    LET liq_trend_up == GtMean(row.Net_Liquidity, row.Liq_SMA_20)
        btc_trend_up == GtMean(row.BTC_Price, row.BTC_SMA_20)
    IN  IF liq_trend_up /\ btc_trend_up THEN "STRONG_LONG"
        ELSE IF ~liq_trend_up /\ btc_trend_up THEN "DIVERGENCE"
        ELSE IF liq_trend_up /\ ~btc_trend_up THEN "BUY_OPPORTUNITY"
        ELSE "NEUTRAL"

\* faulty variant: a row with an undefined input gets no signal
get_status_nan(row) ==
    LET liq_trend_up == GtMean(row.Net_Liquidity, row.Liq_SMA_20)
        btc_trend_up == GtMean(row.BTC_Price, row.BTC_SMA_20)
        high_corr    == GtHalf(row.Correlation)
    IN  IF ~row.Liq_SMA_20.def \/ ~row.BTC_SMA_20.def \/ ~row.Correlation.def
        THEN "NaN"
        ELSE IF liq_trend_up /\ btc_trend_up /\ high_corr THEN "STRONG_LONG"
        ELSE IF ~liq_trend_up /\ btc_trend_up THEN "DIVERGENCE"
        ELSE IF liq_trend_up /\ ~btc_trend_up THEN "BUY_OPPORTUNITY"
        ELSE "NEUTRAL"

\* get_status(row), lines 89-97
get_status(row) ==
    LET liq_trend_up == GtMean(row.Net_Liquidity, row.Liq_SMA_20)
        btc_trend_up == GtMean(row.BTC_Price, row.BTC_SMA_20)
        high_corr    == GtHalf(row.Correlation)
    IN  IF liq_trend_up /\ btc_trend_up /\ high_corr THEN "STRONG_LONG"
        ELSE IF ~liq_trend_up /\ btc_trend_up THEN "DIVERGENCE"
        ELSE IF liq_trend_up /\ ~btc_trend_up THEN "BUY_OPPORTUNITY"
        ELSE "NEUTRAL"

\* the three rolling columns, lines 85-87
WithRolling(rows) ==
    LET liq == Column(rows, "Net_Liquidity")
        btc == Column(rows, "BTC_Price")
    IN  [i \in 1..Len(rows) |->
            [date          |-> rows[i].date,
             Net_Liquidity |-> rows[i].Net_Liquidity,
             BTC_Price     |-> rows[i].BTC_Price,
             Liq_SMA_20    |-> RollingMean(liq, SmaWindow, i),
             BTC_SMA_20    |-> RollingMean(btc, SmaWindow, i),
             Correlation   |-> RollingCorr(liq, btc, CorrWindow, i)]]

\* df['Signal'] = df.apply(get_status, axis=1), line 99
WithSignal(rows) ==
    [i \in 1..Len(rows) |->
        [date          |-> rows[i].date,
         Net_Liquidity |-> rows[i].Net_Liquidity,
         BTC_Price     |-> rows[i].BTC_Price,
         Liq_SMA_20    |-> rows[i].Liq_SMA_20,
         BTC_SMA_20    |-> rows[i].BTC_SMA_20,
         Correlation   |-> rows[i].Correlation,
         Signal        |-> get_status(rows[i])]]

\* faulty variant: the rows without a moving average dropped (a dropna())
calculate_signal_dropna(rows) ==
    SelectSeq(WithSignal(WithRolling(rows)), LAMBDA r : r.Liq_SMA_20.def)

\* the rows of the table after calculate_signal has run on it
calculate_signal(rows) == WithSignal(WithRolling(rows))

------------------------------------------------------------------------------
(* get_realtime_btc_price, lines 24-45 *)

\* what yf.download returns for the last five days
LiveOutcomes ==
    {Failure} \cup
    { [ok |-> TRUE, rows |-> c] :
        c \in {<<>>} \cup {<<a>> : a \in 1..2}
                     \cup {<<a, b>> : a \in 1..2, b \in 1..2} }

NoPrice == [none |-> TRUE, price |-> 0, change |-> NaNCell]

\* (current_price, change_24h), (None, None) as NoPrice; the change is the
\* fraction num/den percent
get_realtime_btc_price(live) ==
    LET n == Len(live.rows)
    IN  IF ~live.ok THEN NoPrice
        ELSE IF n >= 2 THEN
            [none   |-> FALSE,
             price  |-> live.rows[n],
             change |-> [def |-> TRUE,
                         num |-> (live.rows[n] - live.rows[n - 1]) * 100,
                         den |-> live.rows[n - 1]]]
        ELSE IF n = 1 THEN
            [none   |-> FALSE,
             price  |-> live.rows[n],
             change |-> [def |-> TRUE, num |-> 0, den |-> 1]]
        ELSE NoPrice

------------------------------------------------------------------------------
(* The script, lines 105-241 *)

EmptyCache == [full |-> FALSE, value |-> None, errors |-> {}]

\* no row read yet
NoRow ==
    [date |-> 0, Net_Liquidity |-> 0, BTC_Price |-> 0, Liq_SMA_20 |-> NaNCell,
     BTC_SMA_20 |-> NaNCell, Correlation |-> NaNCorr, Signal |-> ""]

\* nothing rendered
NoPage ==
    [els         |-> {},
     price_label |-> "",
     price       |-> 0,
     delta       |-> NaNCell,
     liquidity   |-> 0,
     correlation |-> NaNCorr,
     signal      |-> "",
     chart_rows  |-> 0,
     table_rows  |-> 0,
     csv_rows    |-> 0]

\* what lines 155-241 put on the page: the four indicators (the price one
\* live, or the latest close when the probe gave None), the chart, the
\* table of the last 30 rows and the CSV download
Page(rows, last, live) ==
    [els         |-> {"price", "liquidity", "correlation", "signal",
                      "chart", "table", "csv"},
     price_label |-> IF live.none THEN "BTC Price" ELSE "BTC Price (Live)",
     price       |-> IF live.none THEN last.BTC_Price ELSE live.price,
     delta       |-> IF live.none THEN NaNCell ELSE live.change,
     liquidity   |-> last.Net_Liquidity,
     correlation |-> last.Correlation,
     signal      |-> last.Signal,
     chart_rows  |-> Len(rows),
     table_rows  |-> Min(Len(rows), TailRows),
     csv_rows    |-> Len(rows)]

Init ==
    /\ pc = "start"
    /\ cache = EmptyCache
    /\ raw_df = None
    /\ df = None
    /\ latest = NoRow
    /\ errors = {}
    /\ rendered = NoPage
    /\ acquired = [fred |-> TRUE, btc |-> TRUE]

\* line 146, cache hit: st.cache_data returns the stored value and replays
\* the st.error calls recorded with it
GetMarketDataHit ==
    /\ pc = "start"
    /\ cache.full
    /\ raw_df' = cache.value
    /\ errors' = cache.errors
    /\ pc' = "loaded"
    /\ UNCHANGED <<cache, df, latest, rendered, acquired>>

\* line 146, cache miss: the function body runs and its result is stored
GetMarketDataMiss ==
    /\ pc = "start"
    /\ ~cache.full
    /\ \E fred \in FredOutcomes, btc \in BtcOutcomes :
          LET r == get_market_data(fred, btc)
          IN  /\ raw_df' = r.value
              /\ errors' = r.errors
              /\ cache' = [full |-> TRUE, value |-> r.value, errors |-> r.errors]
              /\ acquired' = [fred |-> fred.ok, btc |-> btc.ok]
    /\ pc' = "loaded"
    /\ UNCHANGED <<df, latest, rendered>>

\* line 147, raw_df is None: nothing else runs
SkipOnNone ==
    /\ pc = "loaded"
    /\ raw_df.none
    /\ pc' = "done"
    /\ UNCHANGED <<cache, raw_df, df, latest, errors, rendered, acquired>>

\* line 148: calculate_signal adds its columns to the table it was given
\* and returns that same object, so raw_df and df name one table
CalculateSignal ==
    /\ pc = "loaded"
    /\ ~raw_df.none
    /\ raw_df' = Frame(calculate_signal(raw_df.rows))
    /\ df' = raw_df'
    /\ pc' = "signal"
    /\ UNCHANGED <<cache, latest, errors, rendered, acquired>>

\* line 149: df.iloc[-1]; IndexError on a table without rows, which ends the
\* run with an uncaught exception
ReadLatest ==
    /\ pc = "signal"
    /\ IF Len(df.rows) = 0
       THEN /\ pc' = "crashed"
            /\ UNCHANGED latest
       ELSE /\ pc' = "latest"
            /\ latest' = df.rows[Len(df.rows)]
    /\ UNCHANGED <<cache, raw_df, df, errors, rendered, acquired>>

\* lines 152-241: live price, indicators, chart, signal table, CSV export
Render ==
    /\ pc = "latest"
    /\ \E live \in LiveOutcomes :
          rendered' = Page(df.rows, latest, get_realtime_btc_price(live))
    /\ pc' = "done"
    /\ UNCHANGED <<cache, raw_df, df, latest, errors, acquired>>

\* a widget interaction starts the script again
Rerun ==
    /\ pc \in {"done", "crashed"}
    /\ pc' = "start"
    /\ raw_df' = None
    /\ df' = None
    /\ latest' = NoRow
    /\ errors' = {}
    /\ rendered' = NoPage
    /\ UNCHANGED <<cache, acquired>>

\* lines 132-134: Refresh Data clears the cache and reruns
Refresh ==
    /\ pc \in {"done", "crashed"}
    /\ cache' = EmptyCache
    /\ pc' = "start"
    /\ raw_df' = None
    /\ df' = None
    /\ latest' = NoRow
    /\ errors' = {}
    /\ rendered' = NoPage
    /\ UNCHANGED acquired

\* ttl=3600, line 47: the entry expires between runs
Expire ==
    /\ pc \in {"done", "crashed"}
    /\ cache.full
    /\ cache' = EmptyCache
    /\ UNCHANGED <<pc, raw_df, df, latest, errors, rendered, acquired>>

Next ==
    \/ GetMarketDataHit
    \/ GetMarketDataMiss
    \/ SkipOnNone
    \/ CalculateSignal
    \/ ReadLatest
    \/ Render
    \/ Rerun
    \/ Refresh
    \/ Expire

Spec == Init /\ [][Next]_vars

------------------------------------------------------------------------------
(* Properties *)

Signals == {"STRONG_LONG", "DIVERGENCE", "BUY_OPPORTUNITY", "NEUTRAL"}

\* calculate_signal has run in this run of the script
Computed == ~df.none

\* the two input columns and the index of a table
Input(rows) ==
    [i \in 1..Len(rows) |->
        [date          |-> rows[i].date,
         Net_Liquidity |-> rows[i].Net_Liquidity,
         BTC_Price     |-> rows[i].BTC_Price]]

RECURSIVE SumOver(_, _, _)
\* the sum of rows[k][c] over the indices k in S
SumOver(rows, c, S) ==
    IF S = {} THEN 0
    ELSE LET k == CHOOSE j \in S : TRUE
         IN  rows[k][c] + SumOver(rows, c, S \ {k})

\* the rows of the window of n rows that ends at row i
Window(i, n) == (i - n + 1)..i

\* column c takes one value only over the rows S
Constant(rows, c, S) == \A j \in S, k \in S : rows[j][c] = rows[k][c]

\* the three comparisons of the signal, read off the columns of a row
LiqUp(r)    == r.Liq_SMA_20.def /\ r.Net_Liquidity * r.Liq_SMA_20.den > r.Liq_SMA_20.num
PriceUp(r)  == r.BTC_SMA_20.def /\ r.BTC_Price * r.BTC_SMA_20.den > r.BTC_SMA_20.num
HighCorr(r) == /\ r.Correlation.def
               /\ r.Correlation.num > 0
               /\ 4 * r.Correlation.num * r.Correlation.num > r.Correlation.den2

\* C1: every row's signal is STRONG_LONG exactly when liq_up, price_up and
\* high_corr all hold, DIVERGENCE exactly when price_up holds without liq_up,
\* BUY_OPPORTUNITY exactly when liq_up holds without price_up, and NEUTRAL
\* exactly when both are down or both are up without high correlation (a
\* comparison against an undefined value counting as false).
C1_PriorityChain ==
    Computed =>
        \A i \in 1..Len(df.rows) :
            LET r == df.rows[i]
                L == LiqUp(r)
                P == PriceUp(r)
                H == HighCorr(r)
            IN  /\ (r.Signal = "STRONG_LONG") <=> (L /\ P /\ H)
                /\ (r.Signal = "DIVERGENCE") <=> (~L /\ P)
                /\ (r.Signal = "BUY_OPPORTUNITY") <=> (L /\ ~P)
                /\ (r.Signal = "NEUTRAL") <=> ((~L /\ ~P) \/ (L /\ P /\ ~H))

\* a table with a row where both trends are up and the correlation is
\* defined but not above 0.5, classified NEUTRAL, and a row classified
\* DIVERGENCE
C1_Witness ==
    /\ Computed
    /\ \E i \in 1..Len(df.rows) :
          LET r == df.rows[i]
          IN  /\ LiqUp(r) /\ PriceUp(r)
              /\ r.Correlation.def /\ ~HighCorr(r)
              /\ r.Signal = "NEUTRAL"
    /\ \E i \in 1..Len(df.rows) : df.rows[i].Signal = "DIVERGENCE"

\* C2: for a table with at least one row, calculate_signal gives every row
\* exactly one of the four signal values, keeps the number of rows, and the
\* run does not fail.
C2_SignalTotal ==
    (Computed /\ Len(df.rows) >= 1) =>
        /\ \A i \in 1..Len(df.rows) : df.rows[i].Signal \in Signals
        /\ pc # "crashed"

\* a single-row table, its moving averages and correlation undefined, with
\* a signal
C2_Witness ==
    /\ Computed
    /\ Len(df.rows) = 1
    /\ ~df.rows[1].Liq_SMA_20.def
    /\ ~df.rows[1].BTC_SMA_20.def
    /\ ~df.rows[1].Correlation.def
    /\ df.rows[1].Signal \in Signals
    /\ pc = "latest"

\* C3: right after calculate_signal, for every k the derived columns of
\* rows 0..k-1 are those calculate_signal gives on the first k rows alone.
C3_NoLookAhead ==
    pc = "signal" =>
        \A k \in 1..Len(df.rows) :
            calculate_signal(SubSeq(Input(df.rows), 1, k)) = SubSeq(df.rows, 1, k)

\* a table long enough for all derived columns to be defined, whose last
\* rows change the values
C3_Witness ==
    /\ pc = "signal"
    /\ Len(df.rows) > CorrWindow
    /\ df.rows[Len(df.rows)].Correlation.def
    /\ df.rows[Len(df.rows)].Net_Liquidity # df.rows[1].Net_Liquidity

\* C4: both moving averages are undefined for rows 0..18, and for every row
\* i >= 19 each is defined and is the sum of its column over rows i-19..i
\* divided by 20.
C4_Sma20 ==
    Computed =>
        \A i \in 1..Len(df.rows) :
            LET r == df.rows[i]
            IN  IF i <= 19
                THEN ~r.Liq_SMA_20.def /\ ~r.BTC_SMA_20.def
                ELSE /\ r.Liq_SMA_20.def
                     /\ r.BTC_SMA_20.def
                     /\ 20 * r.Liq_SMA_20.num =
                          r.Liq_SMA_20.den * SumOver(df.rows, "Net_Liquidity", Window(i, 20))
                     /\ 20 * r.BTC_SMA_20.num =
                          r.BTC_SMA_20.den * SumOver(df.rows, "BTC_Price", Window(i, 20))

\* a table where row 18 has no average, and a later row's 20-row window does
\* not start at the first row and holds two different values
C4_Witness ==
    /\ Computed
    /\ Len(df.rows) >= 25
    /\ ~df.rows[19].Liq_SMA_20.def
    /\ \E i \in 21..Len(df.rows) :
          /\ df.rows[i].BTC_SMA_20.def
          /\ ~Constant(df.rows, "BTC_Price", Window(i, 20))
          /\ df.rows[i - 20].BTC_Price # df.rows[i].BTC_Price

\* n times the deviation of rows[k][c] from the mean of column c over S
Dev(rows, c, S, k) == Cardinality(S) * rows[k][c] - SumOver(rows, c, S)

RECURSIVE SumDev(_, _, _, _, _)
\* the sum over k in T of the products of the deviations of columns a and b
SumDev(rows, a, b, S, T) ==
    IF T = {} THEN 0
    ELSE LET k == CHOOSE j \in T : TRUE
         IN  Dev(rows, a, S, k) * Dev(rows, b, S, k) + SumDev(rows, a, b, S, T \ {k})

\* cell c is the Pearson correlation of the two columns over the rows S:
\* the sum of the products of the deviations over the root of the product
\* of the sums of the squared deviations
IsPearson(c, rows, S) ==
    LET n == Cardinality(S)
    IN  /\ n * c.num = SumDev(rows, "Net_Liquidity", "BTC_Price", S, S)
        /\ n * n * c.den2 =
             SumDev(rows, "Net_Liquidity", "Net_Liquidity", S, S)
               * SumDev(rows, "BTC_Price", "BTC_Price", S, S)

C6_InputUntouched == [][CalculateSignal => raw_df' = raw_df]_vars

\* C6 amended: calculate_signal adds the four derived columns to the table
\* it was given and returns that table; the rows, their order, the index and
\* the two input columns of that table are unchanged.
C6_InputColumnsKept ==
    [][CalculateSignal =>
          /\ raw_df' = df'
          /\ ~raw_df'.none
          /\ Input(raw_df'.rows) = raw_df.rows
          /\ \A i \in 1..Len(raw_df'.rows) :
                DOMAIN raw_df'.rows[i] =
                    DOMAIN raw_df.rows[i] \cup
                        {"Liq_SMA_20", "BTC_SMA_20", "Correlation", "Signal"}]_vars

\* calculate_signal has just run on a table with rows, and the caller's
\* table carries the derived columns
C6_Witness ==
    /\ pc = "signal"
    /\ Len(raw_df.rows) >= 20
    /\ raw_df = df
    /\ raw_df.rows[20].Liq_SMA_20.def
    /\ raw_df.rows[20].Signal \in Signals

\* C7: whenever calculate_signal is about to be invoked, the table
\* get_market_data returned has at least one row.
C7_NeverEmpty == (pc = "loaded" /\ ~raw_df.none) => Len(raw_df.rows) >= 1

\* C8: when a source failed, get_market_data has shown an error and returned
\* None, and the run calculates no signal, renders nothing and does not
\* fail.
C8_FailureAborts ==
    (pc # "start" /\ (~acquired.fred \/ ~acquired.btc)) =>
        /\ raw_df = None
        /\ errors # {}
        /\ df = None
        /\ latest = NoRow
        /\ rendered = NoPage
        /\ pc \in {"loaded", "done"}

\* a run that ended after the price source failed, the macro source having
\* answered
C8_Witness ==
    /\ pc = "done"
    /\ acquired.fred
    /\ ~acquired.btc
    /\ errors = {"btc"}
    /\ rendered = NoPage

C10_UndefinedNeverStrong ==
    Computed =>
        \A i \in 1..Len(df.rows) :
            LET r == df.rows[i]
            IN  /\ (~r.Correlation.def \/ ~r.Liq_SMA_20.def \/ ~r.BTC_SMA_20.def)
                      => r.Signal \in {"NEUTRAL", "BUY_OPPORTUNITY", "DIVERGENCE"}
                /\ i <= 29 => r.Signal # "STRONG_LONG"

\* a row with both trends up and an undefined correlation, classified
\* NEUTRAL, in a table that also has a STRONG_LONG row after the warm-up
C10_Witness ==
    /\ Computed
    /\ \E i \in 1..Len(df.rows) :
          /\ LiqUp(df.rows[i]) /\ PriceUp(df.rows[i])
          /\ ~df.rows[i].Correlation.def
          /\ df.rows[i].Signal = "NEUTRAL"
    /\ \E i \in 1..Len(df.rows) : df.rows[i].Signal = "STRONG_LONG"

====
